---- MODULE Spec2Model ----
(***************************************************************************)
(* Model of the duty scheduler (bfpimentel/scheduler): the scheduling      *)
(* component with its State/Confirmation classes, the roster merge         *)
(* (updateMembers), the bulk import (handleFileUpload / reader.onload),    *)
(* the month switch (handleMonthSelection) and generateSchedule.           *)
(*                                                                         *)
(* A Date is its time value, counted in ticks; TicksPerDay ticks make a    *)
(* calendar day.  The calendar the program runs in (the length of a month  *)
(* and the weekday of its first day) is the variable calendar, fixed by    *)
(* Init.  A name is a sequence of one-character strings, so that           *)
(* toLowerCase and trim act on it.                                         *)
(***************************************************************************)
EXTENDS Integers, Sequences, FiniteSets, TLC

(* ------------------------------ bounds --------------------------------- *)

\* ticks of a calendar day
TicksPerDay == 2

\* days of a month of the short calendar
DaysPerMonth == 3

\* months the month select offers (availableMonths) and files may name
NumMonths == 2

\* weekday (getDay: 0 Sunday .. 6 Saturday) of the first day of month 0 in
\* the short calendar
FirstWeekday == 4

\* longest draft list the form is driven to
MaxDraft == 2

\* file readers that may be waiting for their onload at the same time
MaxReaders == 1

\* events of the user in one run of the page
MaxEvents == 8

(* ------------------------- values of the program ----------------------- *)

\* getTime() of an Invalid Date
NaN == -1

\* the value undefined of selectedDate: Date | undefined
Undefined == -2

\* generateSchedule needs this many members, and fills at most this many
MinMembers == 4

MaxAssignees == 4

(* ------------------------------- state --------------------------------- *)

VARIABLES
    calendar,               \* the calendar: daysPerMonth, firstWeekday
    state,                  \* the State held by useState
    readers,                \* FileReaders waiting for onload, each with the
                            \* lines of its file and the state of the render
                            \* that handleFileUpload ran in
    fileChooser,            \* the file input's chooser is open
    selectValue,            \* the value the month select holds
    toast,                  \* title of the toast shown last
    last,                   \* the handler that ran last, with its arguments
    events,                 \* events of the user so far
    pc,                     \* position of generateSchedule
    dates,                  \* locals of generateSchedule
    dateIndex,
    schedule,
    memberAssignmentCounts,
    availableForDate,
    maxMembers,
    scheduleMembers,
    memberIndex

locals == << dates, dateIndex, schedule, memberAssignmentCounts,
             availableForDate, maxMembers, scheduleMembers, memberIndex >>

vars == << calendar, state, readers, fileChooser, selectValue, toast, last,
          events, pc, locals >>

(* ------------------------------ calendar ------------------------------- *)

TicksPerMonth == calendar.daysPerMonth * TicksPerDay

Months == 0 .. (NumMonths - 1)

Ticks == 0 .. (NumMonths * TicksPerMonth - 1)

Days == 0 .. (NumMonths * calendar.daysPerMonth - 1)

(* ------------------------------ date-fns ------------------------------- *)

startOfDay(date) == (date \div TicksPerDay) * TicksPerDay

startOfMonth(date) == (date \div TicksPerMonth) * TicksPerMonth

endOfMonth(date) == startOfMonth(date) + TicksPerMonth - 1

eachDayOfInterval(start, end) ==
    [i \in 1 .. ((startOfDay(end) - startOfDay(start)) \div TicksPerDay) + 1 |->
        startOfDay(start) + (i - 1) * TicksPerDay]

\* a comparison of the calendar days of the two dates (isSameDay)
isSameDay(dateLeft, dateRight) ==
    /\ dateLeft # NaN
    /\ dateRight # NaN
    /\ dateLeft \div TicksPerDay = dateRight \div TicksPerDay

\* isEqual compares the two time values
isEqual(dateLeft, dateRight) ==
    /\ dateLeft # NaN
    /\ dateRight # NaN
    /\ dateLeft = dateRight

isSameMonth(dateLeft, dateRight) ==
    dateLeft \div TicksPerMonth = dateRight \div TicksPerMonth

getDay(date) == ((date \div TicksPerDay) + calendar.firstWeekday) % 7

isSunday(date) == getDay(date) = 0

isFriday(date) == getDay(date) = 5

isSaturday(date) == getDay(date) = 6

\* addMonths keeps the day of the month and the time of day
addMonths(date, amount) == date + amount * TicksPerMonth

(* ------------------------- sequences (Array) --------------------------- *)

filter(array, Keep(_)) == SelectSeq(array, Keep)

some(array, Test(_)) == \E i \in 1 .. Len(array) : Test(array[i])

\* findIndex, counted from 1; 0 stands for the -1 of no match
findIndex(array, Test(_)) ==
    IF some(array, Test)
    THEN CHOOSE i \in 1 .. Len(array) :
            /\ Test(array[i])
            /\ \A j \in 1 .. (i - 1) : ~Test(array[j])
    ELSE 0

slice(array, from, to) == SubSeq(array, from, to)

\* Array.prototype.unshift: the item goes to the front
unshift(array, item) == << item >> \o array

\* Array.prototype.push
push(array, item) == Append(array, item)

SeqsUpTo(S, n) == UNION {[1 .. k -> S] : k \in 0 .. n}

(* ------------------------------ strings -------------------------------- *)

Lower(char) ==
    CASE char = "A" -> "a"
      [] char = "B" -> "b"
      [] char = "C" -> "c"
      [] char = "D" -> "d"
      [] OTHER -> char

toLowerCase(string) == [i \in 1 .. Len(string) |-> Lower(string[i])]

RECURSIVE trimStart(_)
trimStart(string) ==
    IF string # <<>> /\ Head(string) = " " THEN trimStart(Tail(string)) ELSE string

RECURSIVE trimEnd(_)
trimEnd(string) ==
    IF string # <<>> /\ string[Len(string)] = " "
    THEN trimEnd(SubSeq(string, 1, Len(string) - 1))
    ELSE string

trim(string) == trimEnd(trimStart(string))

(* ------------------- lib/utils: formatting and parsing ----------------- *)

\* The text "MMMM 'de' yyyy" of a date names its month: the month's index.
formatMonth(date) == date \div TicksPerMonth

\* parseLocalized(value, "MMMM 'de' yyyy"): the first instant of the month
parseMonth(text) == text * TicksPerMonth

\* A "dd/MM/yyyy" text names a calendar day: the day's number.  Any other
\* text is Garbage and parses to an Invalid Date.
Garbage == -1

formatDay(date) == date \div TicksPerDay

parseDay(text) == IF text = Garbage THEN NaN ELSE text * TicksPerDay

(* ------------------------------ inputs --------------------------------- *)

\* what the user types into the name field
FormNames == {<<>>, <<"A">>, <<"a">>}

\* the text "dd/MM/yyyy" of a day of a month
dayText(month, dayOfMonth) == month * calendar.daysPerMonth + (dayOfMonth - 1)

\* Files the user imports, each the line.split(",") of its lines.
\* A team for month 0; its first line carries no date.
TeamFile ==
    << [name |-> <<"D">>, dateParts |-> <<>>],
       [name |-> <<"A">>, dateParts |-> << dayText(0, 2), dayText(0, 3) >>],
       [name |-> <<"B">>, dateParts |-> << dayText(0, 2) >>],
       [name |-> <<"C">>, dateParts |-> << dayText(0, 3) >>] >>

\* A file for month 1: its first line carries no date, the second has blanks
\* around the name, a text that is no date and a date of month 0.
NextMonthFile ==
    << [name |-> <<"E">>, dateParts |-> <<>>],
       [name |-> <<" ", "b", " ">>,
        dateParts |-> << dayText(1, 1), Garbage, dayText(0, 2) >>] >>

\* A file for month 0: a date twice on a line, a line whose name is blank,
\* and the name of the first line again, in capitals.
RepeatFile ==
    << [name |-> <<"a">>, dateParts |-> << dayText(0, 2), dayText(0, 2) >>],
       [name |-> <<" ">>, dateParts |-> <<>>],
       [name |-> <<"A", " ">>, dateParts |-> << dayText(0, 3) >>] >>

\* The empty file: one line, whose name is the empty string.
EmptyFile == << [name |-> <<>>, dateParts |-> <<>>] >>

Files == {TeamFile, NextMonthFile, RepeatFile, EmptyFile}

(* --------------------------- Confirmation ------------------------------ *)

NoAction == [kind |-> "none"]

\* the closure of Select.onValueChange: handleMonthSelection of the render
\* it was made in, which reads that render's state.selectedMonth
MonthAction(value, renderState) ==
    [kind |-> "month", value |-> value,
     renderState |-> [selectedMonth |-> renderState.selectedMonth]]

\* fileInputRef.current?.click()
FileAction == [kind |-> "file"]

\* new Confirmation(confirmation): the actions are read from the properties
\* confirmAction and cancelAction of the argument
Confirmation(confirmation) ==
    [isOpen |-> IF "isOpen" \in DOMAIN confirmation
                THEN confirmation.isOpen ELSE FALSE,
     _confirmAction |-> IF "confirmAction" \in DOMAIN confirmation
                        THEN confirmation.confirmAction ELSE NoAction,
     _cancelAction |-> IF "cancelAction" \in DOMAIN confirmation
                       THEN confirmation.cancelAction ELSE NoAction]

\* get confirmAction(): the action held is handed out and a no-op is left
\* in the object
confirmAction(confirmation) ==
    [action |-> confirmation._confirmAction,
     confirmation |-> [confirmation EXCEPT !._confirmAction = NoAction]]

\* get cancelAction()
cancelAction(confirmation) ==
    [action |-> confirmation._cancelAction,
     confirmation |-> [confirmation EXCEPT !._cancelAction = NoAction]]

(* -------------------------------- State -------------------------------- *)

\* the new schedule put behind the old one
StateAppendingSchedule(newState, oldState) ==
    [members |-> IF "members" \in DOMAIN newState
                 THEN newState.members ELSE oldState.members,
     name |-> IF "name" \in DOMAIN newState
              THEN newState.name ELSE oldState.name,
     unavailableDates |-> IF "unavailableDates" \in DOMAIN newState
                          THEN newState.unavailableDates
                          ELSE oldState.unavailableDates,
     selectedDate |-> IF /\ "selectedDate" \in DOMAIN newState
                         /\ newState.selectedDate # Undefined
                      THEN newState.selectedDate ELSE oldState.selectedDate,
     selectedMonth |-> IF "selectedMonth" \in DOMAIN newState
                       THEN newState.selectedMonth ELSE oldState.selectedMonth,
     schedule |-> IF "schedule" \in DOMAIN newState
                  THEN oldState.schedule \o newState.schedule
                  ELSE oldState.schedule,
     confirmation |-> IF "confirmation" \in DOMAIN newState
                      THEN newState.confirmation ELSE oldState.confirmation]

\* new State(newState, oldState): newState.x ?? oldState.x, field by field.
\* Only selectedDate is ever handed over as undefined.
State(newState, oldState) ==
    [members |-> IF "members" \in DOMAIN newState
                 THEN newState.members ELSE oldState.members,
     name |-> IF "name" \in DOMAIN newState
              THEN newState.name ELSE oldState.name,
     unavailableDates |-> IF "unavailableDates" \in DOMAIN newState
                          THEN newState.unavailableDates
                          ELSE oldState.unavailableDates,
     selectedDate |-> IF /\ "selectedDate" \in DOMAIN newState
                         /\ newState.selectedDate # Undefined
                      THEN newState.selectedDate ELSE oldState.selectedDate,
     selectedMonth |-> IF "selectedMonth" \in DOMAIN newState
                       THEN newState.selectedMonth ELSE oldState.selectedMonth,
     schedule |-> IF "schedule" \in DOMAIN newState
                  THEN newState.schedule ELSE oldState.schedule,
     confirmation |-> IF "confirmation" \in DOMAIN newState
                      THEN newState.confirmation ELSE oldState.confirmation]

\* State.monthDates
monthDates(renderState) ==
    eachDayOfInterval(startOfMonth(renderState.selectedMonth),
                      endOfMonth(renderState.selectedMonth))

\* The partial states a handler hands to updateState, applied in order by
\* setState((currentState) => new State(partialState, currentState)).
RECURSIVE updateState(_, _)
updateState(partialStates, currentState) ==
    IF partialStates = <<>> THEN currentState
    ELSE updateState(Tail(partialStates), State(Head(partialStates), currentState))

(* ------------------------------ handlers ------------------------------- *)
\* Each handler is given the state of the render its closure was made in and
\* yields the partial states it queues.

\* the switch made for a month that is already the selected one as well
handleMonthSelectionOfAnyMonth(renderState, month) ==
    << [selectedMonth |-> month,
        name |-> <<>>,
        members |-> <<>>,
        unavailableDates |-> <<>>,
        schedule |-> <<>>] >>

\* the switch that leaves the stored schedule
handleMonthSelectionKeepingSchedule(renderState, month) ==
    IF isSameMonth(renderState.selectedMonth, month) THEN <<>>
    ELSE << [selectedMonth |-> month,
             name |-> <<>>,
             members |-> <<>>,
             unavailableDates |-> <<>>] >>

handleMonthSelection(renderState, month) ==
    IF isSameMonth(renderState.selectedMonth, month) THEN <<>>
    ELSE << [selectedMonth |-> month,
             name |-> <<>>,
             members |-> <<>>,
             unavailableDates |-> <<>>,
             schedule |-> <<>>] >>

\* the dates of member, whether existingMember has them or not
newDatesUnfiltered(existingMember, member) == member.unavailableDates

\* the dates of member that existingMember has: the test not negated
newDatesAlreadyPresent(existingMember, member) ==
    filter(member.unavailableDates,
           LAMBDA newDate :
              some(existingMember.unavailableDates,
                   LAMBDA existingDate : isEqual(existingDate, newDate)))

\* the dates of member not yet among those of existingMember
newDates(existingMember, member) ==
    filter(member.unavailableDates,
           LAMBDA newDate :
              ~some(existingMember.unavailableDates,
                    LAMBDA existingDate : isEqual(existingDate, newDate)))

\* a round of members.forEach that compares the names as they are written
mergeMemberExact(currentMembers, member) ==
    LET existingMemberIndex ==
            findIndex(currentMembers,
                      LAMBDA existingMember : existingMember.name = member.name)
    IN  IF existingMemberIndex # 0
        THEN LET existingMember == currentMembers[existingMemberIndex]
                 updatedDates == existingMember.unavailableDates
                                 \o newDates(existingMember, member)
             IN  slice(currentMembers, 1, existingMemberIndex - 1)
                 \o << [existingMember EXCEPT !.unavailableDates = updatedDates] >>
                 \o slice(currentMembers, existingMemberIndex + 1, Len(currentMembers))
        ELSE Append(currentMembers, member)

\* a round of members.forEach that gives a member found the new dates only
mergeMemberReplacing(currentMembers, member) ==
    LET existingMemberIndex ==
            findIndex(currentMembers,
                      LAMBDA existingMember :
                         toLowerCase(existingMember.name) = toLowerCase(member.name))
    IN  IF existingMemberIndex # 0
        THEN LET existingMember == currentMembers[existingMemberIndex]
                 updatedDates == newDates(existingMember, member)
             IN  slice(currentMembers, 1, existingMemberIndex - 1)
                 \o << [existingMember EXCEPT !.unavailableDates = updatedDates] >>
                 \o slice(currentMembers, existingMemberIndex + 1, Len(currentMembers))
        ELSE Append(currentMembers, member)

\* a round of members.forEach that puts a member not found in front
mergeMemberInFront(currentMembers, member) ==
    LET existingMemberIndex ==
            findIndex(currentMembers,
                      LAMBDA existingMember :
                         toLowerCase(existingMember.name) = toLowerCase(member.name))
    IN  IF existingMemberIndex # 0
        THEN LET existingMember == currentMembers[existingMemberIndex]
                 updatedDates == existingMember.unavailableDates
                                 \o newDates(existingMember, member)
             IN  slice(currentMembers, 1, existingMemberIndex - 1)
                 \o << [existingMember EXCEPT !.unavailableDates = updatedDates] >>
                 \o slice(currentMembers, existingMemberIndex + 1, Len(currentMembers))
        ELSE << member >> \o currentMembers

\* one round of members.forEach in updateMembers
mergeMember(currentMembers, member) ==
    LET existingMemberIndex ==
            findIndex(currentMembers,
                      LAMBDA existingMember :
                         toLowerCase(existingMember.name) = toLowerCase(member.name))
    IN  IF existingMemberIndex # 0
        THEN LET existingMember == currentMembers[existingMemberIndex]
                 updatedDates == existingMember.unavailableDates
                                 \o newDates(existingMember, member)
             IN  slice(currentMembers, 1, existingMemberIndex - 1)
                 \o << [existingMember EXCEPT !.unavailableDates = updatedDates] >>
                 \o slice(currentMembers, existingMemberIndex + 1, Len(currentMembers))
        ELSE Append(currentMembers, member)

RECURSIVE mergeMembers(_, _)
mergeMembers(currentMembers, members) ==
    IF members = <<>> THEN currentMembers
    ELSE mergeMembers(mergeMember(currentMembers, Head(members)), Tail(members))

updateMembers(renderState, members) ==
    << [members |-> mergeMembers(renderState.members, members)] >>

handleAddDate(renderState) ==
    IF /\ renderState.selectedDate # Undefined
       /\ ~some(renderState.unavailableDates,
                LAMBDA date : isEqual(date, renderState.selectedDate))
    THEN << [unavailableDates |->
                Append(renderState.unavailableDates, renderState.selectedDate),
             selectedDate |-> Undefined] >>
    ELSE <<>>

handleRemoveDate(renderState, dateToRemove) ==
    << [unavailableDates |->
           filter(renderState.unavailableDates,
                  LAMBDA date : ~isEqual(date, dateToRemove))] >>

handleSubmit(renderState) ==
    IF renderState.name # <<>>
    THEN updateMembers(renderState,
                       << [name |-> renderState.name,
                           unavailableDates |-> renderState.unavailableDates] >>)
         \o << [name |-> <<>>, unavailableDates |-> <<>>] >>
    ELSE <<>>

(* reader.onload *)

\* dateParts.map(parseLocalized).filter(!isNaN(getTime()))
parsedDates(line) ==
    filter([i \in 1 .. Len(line.dateParts) |-> parseDay(line.dateParts[i])],
           LAMBDA date : date # NaN)

\* newMonth after lines.forEach: the first date of the first line that has one
RECURSIVE newMonthOf(_)
newMonthOf(lines) ==
    IF lines = <<>> THEN Undefined
    ELSE IF parsedDates(Head(lines)) # <<>> THEN parsedDates(Head(lines))[1]
    ELSE newMonthOf(Tail(lines))

\* the lines from the first one that carries a date, all lines if none does
RECURSIVE linesFromFirstDate(_)
linesFromFirstDate(lines) ==
    IF lines = <<>> THEN <<>>
    ELSE IF parsedDates(Head(lines)) # <<>> THEN lines
    ELSE linesFromFirstDate(Tail(lines))

\* the members of the lines from the first dated line on: what is left when
\* the roster is emptied at that line
membersToBeAddedFromFirstDate(lines) ==
    LET kept == IF linesFromFirstDate(lines) = <<>> THEN lines
                ELSE linesFromFirstDate(lines)
        named == filter(kept, LAMBDA line : line.name # <<>>)
    IN  [i \in 1 .. Len(named) |->
            [name |-> trim(named[i].name),
             unavailableDates |-> parsedDates(named[i])]]

\* membersToBeAdded after lines.forEach
RECURSIVE membersToBeAdded(_)
membersToBeAdded(lines) ==
    IF lines = <<>> THEN <<>>
    ELSE (IF Head(lines).name # <<>>
          THEN << [name |-> trim(Head(lines).name),
                   unavailableDates |-> parsedDates(Head(lines))] >>
          ELSE <<>>)
         \o membersToBeAdded(Tail(lines))

updatedMembersToBeAdded(renderState, lines) ==
    LET newMonth == newMonthOf(lines)
        base == IF newMonth # Undefined THEN newMonth ELSE renderState.selectedMonth
        days == eachDayOfInterval(startOfMonth(base), endOfMonth(base))
        added == membersToBeAdded(lines)
    IN  [i \in 1 .. Len(added) |->
            [name |-> added[i].name,
             unavailableDates |->
                filter(added[i].unavailableDates,
                       LAMBDA date :
                          some(days, LAMBDA monthDate : isEqual(monthDate, date)))]]

onload(renderState, lines) ==
    (IF newMonthOf(lines) # Undefined
     THEN handleMonthSelection(renderState, newMonthOf(lines))
     ELSE <<>>)
    \o updateMembers(renderState, updatedMembersToBeAdded(renderState, lines))

(* generateSchedule *)

\* a guard that lets a roster of three through
insufficientMembersBelowThree(renderState) ==
    Len(renderState.members) < MinMembers - 1

\* the comparison turned round
insufficientMembersInverted(renderState) == Len(renderState.members) > MinMembers

\* if (state.members.length < 4)
insufficientMembers(renderState) == Len(renderState.members) < MinMembers

countOf(counts, name) ==
    IF name \in DOMAIN counts
    THEN counts[name] ELSE 0

\* the count put up by two
incrementByTwo(counts, name) ==
    [n \in DOMAIN counts \cup {name} |->
        IF n = name THEN countOf(counts, name) + 2
        ELSE counts[n]]

increment(counts, name) ==
    [n \in DOMAIN counts \cup {name} |->
        IF n = name THEN countOf(counts, name) + 1
        ELSE counts[n]]

\* Array.prototype.sort is stable: a member goes behind the members whose
\* count is not larger than its own
RECURSIVE insert(_, _, _)
insert(sorted, member, counts) ==
    IF sorted = <<>> THEN << member >>
    ELSE IF countOf(counts, Head(sorted).name)
            <= countOf(counts, member.name)
         THEN << Head(sorted) >>
              \o insert(Tail(sorted), member, counts)
         ELSE << member >> \o sorted

\* the members with the smallest count only, in the order of the array
sortKeepingMinimum(array, counts) ==
    filter(array,
           LAMBDA member :
              \A i \in 1 .. Len(array) :
                 countOf(counts, member.name) <= countOf(counts, array[i].name))

RECURSIVE sort(_, _)
sort(array, counts) ==
    IF array = <<>> THEN <<>>
    ELSE insert(sort(SubSeq(array, 1, Len(array) - 1), counts),
                array[Len(array)], counts)

\* a comparison of the Date objects themselves, which no two dates pass
isAvailableByIdentity(member, date) ==
    ~some(member.unavailableDates, LAMBDA unavailableDate : FALSE)

isAvailable(member, date) ==
    ~some(member.unavailableDates,
          LAMBDA unavailableDate : isEqual(unavailableDate, date))

\* the Saturdays and Sundays of the month
eligibleDatesOfWeekend(renderState) ==
    filter(monthDates(renderState),
           LAMBDA date : isSaturday(date) \/ isSunday(date))

eligibleDates(renderState) ==
    filter(monthDates(renderState),
           LAMBDA date : isSaturday(date) \/ isSunday(date) \/ isFriday(date))

\* the roster as it is, whoever is unavailable
availableUnfiltered(renderState, date) == renderState.members

available(renderState, date) ==
    filter(renderState.members, LAMBDA member : isAvailable(member, date))

\* a fill target of up to five
maxMembersUpToFive(filtered) ==
    IF Len(filtered) < MaxAssignees + 1 THEN Len(filtered) ELSE MaxAssignees + 1

\* a fill target of up to three
maxMembersUpToThree(filtered) ==
    IF Len(filtered) < MaxAssignees - 1 THEN Len(filtered) ELSE MaxAssignees - 1

\* a fill target of four, however few are available
maxMembersAlwaysFour(filtered) == MaxAssignees

\* const maxMembers = availableForDate.length < 4 ? availableForDate.length : 4
maxMembersFor(filtered) ==
    IF Len(filtered) < MaxAssignees THEN Len(filtered) ELSE MaxAssignees

(* ------------------------------- Init ---------------------------------- *)

EmptyObject == <<>>

\* new State({...}) of useState; the old state stands for the defaults
InitialState(now) ==
    State([name |-> <<>>,
           members |-> <<>>,
           unavailableDates |-> <<>>,
           selectedMonth |-> addMonths(now, 0),
           schedule |-> <<>>,
           confirmation |-> Confirmation(EmptyObject)],
          [members |-> <<>>, name |-> <<>>, unavailableDates |-> <<>>,
           selectedDate |-> Undefined, selectedMonth |-> now,
           schedule |-> <<>>, confirmation |-> Confirmation(EmptyObject)])

\* the locals of generateSchedule outside a run
NoLocals ==
    /\ dates = <<>>
    /\ dateIndex = 0
    /\ schedule = <<>>
    /\ memberAssignmentCounts = <<>>
    /\ availableForDate = <<>>
    /\ maxMembers = 0
    /\ scheduleMembers = <<>>
    /\ memberIndex = 0

\* the calendar of short months
ShortCalendar == [daysPerMonth |-> DaysPerMonth, firstWeekday |-> FirstWeekday]

\* new Date() when the page is opened: the second day of month 0, past midnight
Now == TicksPerDay + 1

\* the page before the user's first event
Fresh ==
    /\ readers = <<>>
    /\ fileChooser = FALSE
    /\ selectValue = formatMonth(state.selectedMonth)
    /\ toast = "none"
    /\ last = [handler |-> "none"]
    /\ events = 0
    /\ pc = "idle"
    /\ NoLocals

Init ==
    /\ calendar = ShortCalendar
    /\ state = InitialState(Now)
    /\ Fresh

\* an event of the user
UserEvent ==
    /\ events < MaxEvents
    /\ events' = events + 1
    /\ UNCHANGED calendar

\* a callback or a step of a running handler
Step == UNCHANGED << calendar, events >>

\* the page takes the user's input: no dialog is open and no handler runs
Interactive ==
    /\ pc = "idle"
    /\ ~state.confirmation.isOpen
    /\ ~fileChooser

\* what the closures of the current render read of the state
Render == [members |-> state.members,
           name |-> state.name,
           unavailableDates |-> state.unavailableDates,
           selectedDate |-> state.selectedDate,
           selectedMonth |-> state.selectedMonth]

(* ----------------------------- the form -------------------------------- *)

\* Input.onChange
ChangeName(value) ==
    /\ UserEvent
    /\ Interactive
    /\ state' = updateState(<< [name |-> value] >>, state)
    /\ last' = [handler |-> "onChange", value |-> value]
    /\ UNCHANGED << selectValue, readers, fileChooser, toast, pc, locals >>

\* Calendar.onSelect: a day between fromDate and toDate, or undefined
SelectDate(value) ==
    /\ UserEvent
    /\ Interactive
    /\ state' = updateState(<< [selectedDate |-> value] >>, state)
    /\ last' = [handler |-> "onSelect", value |-> value]
    /\ UNCHANGED << selectValue, readers, fileChooser, toast, pc, locals >>

\* the button "Adicionar", disabled while no date is selected
AddDate ==
    /\ UserEvent
    /\ Interactive
    /\ state.selectedDate # Undefined
    /\ Len(state.unavailableDates) < MaxDraft
    /\ state' = updateState(handleAddDate(Render), state)
    /\ last' = [handler |-> "handleAddDate"]
    /\ UNCHANGED << selectValue, readers, fileChooser, toast, pc, locals >>

RemoveDate(dateToRemove) ==
    /\ UserEvent
    /\ Interactive
    /\ state' = updateState(handleRemoveDate(Render, dateToRemove), state)
    /\ last' = [handler |-> "handleRemoveDate"]
    /\ UNCHANGED << selectValue, readers, fileChooser, toast, pc, locals >>

\* the form's submit button, disabled while the name is empty
Submit ==
    /\ UserEvent
    /\ Interactive
    /\ state.name # <<>>
    /\ state' = updateState(handleSubmit(Render), state)
    /\ toast' = "Membro atualizado"
    /\ last' = [handler |-> "handleSubmit",
                name |-> state.name,
                unavailableDates |-> state.unavailableDates,
                members |-> state.members]
    /\ UNCHANGED << selectValue, readers, fileChooser, pc, locals >>

(* ------------------------ the confirmation dialog ---------------------- *)

\* Select.onValueChange: the select, which starts from defaultValue, reports
\* a value other than the one it holds
SelectMonth(value) ==
    /\ UserEvent
    /\ Interactive
    /\ value # selectValue
    /\ selectValue' = value
    /\ state' = updateState(
          << [confirmation |->
                Confirmation([isOpen |-> TRUE,
                              confirmAction |-> MonthAction(value, Render)])] >>,
          state)
    /\ last' = [handler |-> "onValueChange", value |-> value]
    /\ UNCHANGED << readers, fileChooser, toast, pc, locals >>

\* the button "Carregar arquivo de membros"
ClickUpload ==
    /\ UserEvent
    /\ Interactive
    /\ state' = updateState(
          << [confirmation |->
                Confirmation([isOpen |-> TRUE, confirmAction |-> FileAction])] >>,
          state)
    /\ last' = [handler |-> "onClick"]
    /\ UNCHANGED << selectValue, readers, fileChooser, toast, pc, locals >>

\* the dialog rebuilt from the actions held by the one before
onOpenChangeCarryingActions(confirmation, isOpen) ==
    << [confirmation |->
           Confirmation([isOpen |-> isOpen,
                         confirmAction |-> confirmation._confirmAction,
                         cancelAction |-> confirmation._cancelAction])] >>

\* AlertDialog.onOpenChange: the spread of state.confirmation carries the
\* fields of the object, not the getters confirmAction and cancelAction
onOpenChange(confirmation, isOpen) ==
    << [confirmation |->
           Confirmation([isOpen |-> isOpen,
                         _confirmAction |-> confirmation._confirmAction,
                         _cancelAction |-> confirmation._cancelAction])] >>

\* what the action read from the getter confirmAction queues when called
runAction(action) ==
    IF action.kind = "month"
    THEN handleMonthSelection(action.renderState, parseMonth(action.value))
    ELSE <<>>

\* AlertDialogAction "Continuar": confirmAction(), then the dialog closes
Confirm ==
    /\ UserEvent
    /\ pc = "idle"
    /\ state.confirmation.isOpen
    /\ LET action == confirmAction(state.confirmation).action
           read == confirmAction(state.confirmation).confirmation
       IN  /\ state' = updateState(runAction(action) \o onOpenChange(read, FALSE),
                                   state)
           /\ fileChooser' = (fileChooser \/ action.kind = "file")
           /\ last' = [handler |-> "confirmAction",
                       action |-> action,
                       selectedMonth |-> state.selectedMonth]
    /\ UNCHANGED << selectValue, readers, toast, pc, locals >>

\* AlertDialogCancel "Cancelar": cancelAction(), then the dialog closes
Cancel ==
    /\ UserEvent
    /\ pc = "idle"
    /\ state.confirmation.isOpen
    /\ LET action == cancelAction(state.confirmation).action
           read == cancelAction(state.confirmation).confirmation
       IN  state' = updateState(runAction(action) \o onOpenChange(read, FALSE),
                                state)
    /\ last' = [handler |-> "cancelAction"]
    /\ UNCHANGED << selectValue, readers, fileChooser, toast, pc, locals >>

(* ---------------------------- the import ------------------------------- *)

\* handleFileUpload with the file the user chose
FileUpload(lines) ==
    /\ UserEvent
    /\ pc = "idle"
    /\ fileChooser
    /\ Len(readers) < MaxReaders
    /\ readers' = Append(readers,
                          [lines |-> lines,
                           renderState |-> [members |-> state.members,
                                            selectedMonth |-> state.selectedMonth]])
    /\ fileChooser' = FALSE
    /\ last' = [handler |-> "handleFileUpload"]
    /\ UNCHANGED << selectValue, state, toast, pc, locals >>

\* the chooser is closed without a file: no change event
CloseChooser ==
    /\ UserEvent
    /\ pc = "idle"
    /\ fileChooser
    /\ fileChooser' = FALSE
    /\ last' = [handler |-> "none"]
    /\ UNCHANGED << selectValue, state, readers, toast, pc, locals >>

\* reader.onload of a waiting reader
Onload(i) ==
    /\ Step
    /\ pc = "idle"
    /\ i \in 1 .. Len(readers)
    /\ state' = updateState(onload(readers[i].renderState, readers[i].lines), state)
    /\ readers' = slice(readers, 1, i - 1) \o slice(readers, i + 1, Len(readers))
    /\ toast' = "Arquivo processado"
    /\ last' = [handler |-> "onload",
                lines |-> readers[i].lines,
                renderState |-> readers[i].renderState,
                selectedMonth |-> state.selectedMonth]
    /\ UNCHANGED << selectValue, fileChooser, pc, locals >>

(* -------------------------- generateSchedule --------------------------- *)

ResetLocals ==
    /\ dates' = <<>>
    /\ dateIndex' = 0
    /\ schedule' = <<>>
    /\ memberAssignmentCounts' = <<>>
    /\ availableForDate' = <<>>
    /\ maxMembers' = 0
    /\ scheduleMembers' = <<>>
    /\ memberIndex' = 0

\* the call, refused for a roster of fewer than MinMembers members.  The
\* button "Gerar escala" is disabled for such a roster: the page never makes
\* this call, which is part of generateSchedule on its own.
GenerateRefused ==
    /\ UserEvent
    /\ Interactive
    /\ insufficientMembers(Render)
    /\ toast' = "Nao foi possivel gerar a escala."
    /\ last' = [handler |-> "generateSchedule",
                renderState |-> [members |-> state.members,
                                 selectedMonth |-> state.selectedMonth],
                stored |-> state.schedule,
                picks |-> <<>>,
                draws |-> <<>>]
    /\ UNCHANGED << selectValue, state, readers, fileChooser, pc, locals >>

\* the call with the counts taken over from the schedule stored before
GenerateStartCountingStored ==
    /\ UserEvent
    /\ Interactive
    /\ ~insufficientMembers(Render)
    /\ schedule' = <<>>
    /\ memberAssignmentCounts' =
          [name \in UNION {{state.schedule[e].members[a] :
                               a \in 1 .. Len(state.schedule[e].members)} :
                           e \in 1 .. Len(state.schedule)} |->
              Cardinality({e \in 1 .. Len(state.schedule) :
                             \E a \in 1 .. Len(state.schedule[e].members) :
                                state.schedule[e].members[a] = name})]
    /\ dates' = eligibleDates(Render)
    /\ dateIndex' = 1
    /\ pc' = "forEach"
    /\ last' = [handler |-> "generateSchedule",
                renderState |-> [members |-> state.members,
                                 selectedMonth |-> state.selectedMonth],
                stored |-> state.schedule,
                picks |-> <<>>,
                draws |-> <<>>]
    /\ UNCHANGED << selectValue, state, readers, fileChooser, toast, availableForDate,
                    maxMembers, scheduleMembers, memberIndex >>

\* the call, by the button "Gerar escala" where the page makes it: schedule,
\* memberAssignmentCounts and dates are set up
GenerateStart ==
    /\ UserEvent
    /\ Interactive
    /\ ~insufficientMembers(Render)
    /\ schedule' = <<>>
    /\ memberAssignmentCounts' = <<>>
    /\ dates' = eligibleDates(Render)
    /\ dateIndex' = 1
    /\ pc' = "forEach"
    /\ last' = [handler |-> "generateSchedule",
                renderState |-> [members |-> state.members,
                                 selectedMonth |-> state.selectedMonth],
                stored |-> state.schedule,
                picks |-> <<>>,
                draws |-> <<>>]
    /\ UNCHANGED << selectValue, state, readers, fileChooser, toast, availableForDate,
                    maxMembers, scheduleMembers, memberIndex >>

\* dates.forEach takes the next date: the members available on it are
\* filtered and, when there are any, sorted for the first pick
GenerateDate ==
    /\ Step
    /\ pc = "forEach"
    /\ dateIndex <= Len(dates)
    /\ LET filtered == available(Render, dates[dateIndex])
       IN  IF Len(filtered) > 0
           THEN /\ maxMembers' = maxMembersFor(filtered)
                /\ scheduleMembers' = <<>>
                /\ memberIndex' = 0
                /\ availableForDate' = sort(filtered, memberAssignmentCounts)
                /\ pc' = "while"
                /\ UNCHANGED << dateIndex >>
           ELSE /\ dateIndex' = dateIndex + 1
                /\ UNCHANGED << pc, availableForDate, maxMembers,
                                scheduleMembers, memberIndex >>
    /\ UNCHANGED << selectValue, state, readers, fileChooser, toast, last, dates, schedule,
                    memberAssignmentCounts >>

\* one round of while (true): randomInt draws index; a member not yet
\* scheduled for the date is taken, any other draw is repeated
GenerateDraw(index) ==
    /\ Step
    /\ pc = "while"
    /\ LET selectedMember == availableForDate[index + 1]
       IN  IF ~some(scheduleMembers,
                    LAMBDA alreadyScheduledMember :
                       alreadyScheduledMember = selectedMember.name)
           THEN LET counts == increment(memberAssignmentCounts, selectedMember.name)
                    picked == push(scheduleMembers, selectedMember.name)
                IN  /\ memberAssignmentCounts' = counts
                    /\ last' = [last EXCEPT !.picks =
                                   Append(@, [date |-> dates[dateIndex],
                                              name |-> selectedMember.name]),
                                             !.draws = Append(@, index)]
                    /\ IF memberIndex + 1 < maxMembers
                       THEN /\ scheduleMembers' = picked
                            /\ memberIndex' = memberIndex + 1
                            /\ availableForDate' = sort(availableForDate, counts)
                            /\ UNCHANGED << pc, schedule, dateIndex, maxMembers >>
                       ELSE /\ schedule' = push(schedule,
                                                [date |-> dates[dateIndex],
                                                 members |-> picked])
                            /\ dateIndex' = dateIndex + 1
                            /\ pc' = "forEach"
                            /\ scheduleMembers' = <<>>
                            /\ memberIndex' = 0
                            /\ availableForDate' = <<>>
                            /\ maxMembers' = 0
           ELSE UNCHANGED << pc, last, locals >>
    /\ UNCHANGED << selectValue, state, readers, fileChooser, toast, dates >>

\* the store after a sort of state.members itself
GenerateStoreSortingRoster ==
    /\ Step
    /\ pc = "forEach"
    /\ dateIndex > Len(dates)
    /\ state' = updateState(<< [schedule |-> schedule,
                                members |-> sort(state.members,
                                                 memberAssignmentCounts)] >>,
                            state)
    /\ toast' = "Escala gerada"
    /\ pc' = "idle"
    /\ ResetLocals
    /\ UNCHANGED << selectValue, readers, fileChooser, last >>

\* after the last date: updateState({ schedule }) and the toast
GenerateStore ==
    /\ Step
    /\ pc = "forEach"
    /\ dateIndex > Len(dates)
    /\ state' = updateState(<< [schedule |-> schedule] >>, state)
    /\ toast' = "Escala gerada"
    /\ pc' = "idle"
    /\ ResetLocals
    /\ UNCHANGED << selectValue, readers, fileChooser, last >>

(* ------------------------------ the program ---------------------------- *)

\* the days Calendar offers: fromDate .. toDate of the render
CalendarDays == {monthDates(state)[i] : i \in 1 .. Len(monthDates(state))}

Next ==
    \/ \E value \in FormNames : ChangeName(value)
    \/ \E value \in CalendarDays \cup {Undefined} : SelectDate(value)
    \/ AddDate
    \/ \E i \in 1 .. Len(state.unavailableDates) :
          RemoveDate(state.unavailableDates[i])
    \/ Submit
    \/ \E value \in Months : SelectMonth(value)
    \/ ClickUpload
    \/ Confirm
    \/ Cancel
    \/ \E lines \in Files : FileUpload(lines)
    \/ CloseChooser
    \/ \E i \in 1 .. MaxReaders : Onload(i)
    \/ GenerateStart
    \/ GenerateDate
    \/ \E index \in 0 .. (Len(availableForDate) - 1) : GenerateDraw(index)
    \/ GenerateStore

Spec == Init /\ [][Next]_vars

(* ------------------- generateSchedule on its own ----------------------- *)
\* The page with a roster already registered, where one event is left: a
\* call of generateSchedule, whatever the roster, followed to its end.

\* largest roster, and most days a member is unavailable on
MaxMembers == 5

MaxUnavailable == 1

RosterNames == << <<"A">>, <<"b">>, <<"C">>, <<"D">>, <<"E">>, <<"F">> >>

\* the days of a month, in ascending order
daysOfMonth(month) ==
    eachDayOfInterval(parseMonth(month), endOfMonth(parseMonth(month)))

\* the ascending lists of up to MaxUnavailable days of a month
UnavailableLists(month) ==
    {list \in SeqsUpTo({daysOfMonth(month)[i] : i \in 1 .. calendar.daysPerMonth},
                       MaxUnavailable) :
        \A i \in 1 .. (Len(list) - 1) : list[i] < list[i + 1]}

\* the orders in which a date with k available members can be filled
RECURSIVE orders(_, _)
orders(k, picks) == IF picks = 0 \/ k = 0 THEN 1 ELSE k * orders(k - 1, picks - 1)

\* the schedules generateSchedule can build for a roster in a month
RECURSIVE schedules(_, _)
schedules(members, days) ==
    IF days = <<>> THEN 1
    ELSE orders(Len(available([members |-> members], Head(days))), MaxAssignees)
         * schedules(members, Tail(days))

\* rosters of up to MaxMembers members with at most MaxSchedules schedules
MaxSchedules == 150

Rosters(month) ==
    {members \in
        UNION {{[i \in 1 .. n |->
                    [name |-> RosterNames[i], unavailableDates |-> lists[i]]] :
                   lists \in [1 .. n -> UnavailableLists(month)]} :
               n \in 0 .. MaxMembers} :
        schedules(members,
                  eligibleDates([selectedMonth |-> parseMonth(month)])) <= MaxSchedules}

InitGen ==
    /\ calendar = ShortCalendar
    /\ \E month \in Months :
          \E members \in Rosters(month) :
             state = [InitialState(Now) EXCEPT
                         !.members = members,
                         !.selectedMonth = addMonths(Now, month)]
    /\ readers = <<>>
    /\ fileChooser = FALSE
    /\ selectValue = formatMonth(state.selectedMonth)
    /\ toast = "Membro atualizado"
    /\ last = [handler |-> "handleSubmit"]
    /\ events = MaxEvents - 1
    /\ pc = "idle"
    /\ NoLocals

NextGen ==
    \/ GenerateRefused
    \/ GenerateStart
    \/ GenerateDate
    \/ \E index \in 0 .. (Len(availableForDate) - 1) : GenerateDraw(index)
    \/ GenerateStore

SpecGen == InitGen /\ [][NextGen]_vars

(* ------------------ generateSchedule over four dates ------------------- *)
\* The page in a calendar whose months have WeekDays days and begin on a
\* Friday, so that the current month has four eligible dates. The roster has
\* MaxMembers members: the first is always available, the others are all
\* unavailable on the same eligible dates, few enough to leave at most
\* MaxBalancedSchedules schedules.

WeekDays == 8

WeekCalendar == [daysPerMonth |-> WeekDays, firstWeekday |-> 5]

MaxBalancedSchedules == 14400

\* the ascending lists of eligible dates of the current month
BlockedLists ==
    LET days == eligibleDates([selectedMonth |-> startOfMonth(Now)])
    IN  {list \in SeqsUpTo({days[i] : i \in 1 .. Len(days)}, Len(days)) :
            \A i \in 1 .. (Len(list) - 1) : list[i] < list[i + 1]}

BalancedRosters ==
    {members \in
        {[i \in 1 .. MaxMembers |->
             [name |-> RosterNames[i],
              unavailableDates |-> IF i = 1 THEN <<>> ELSE list]] :
            list \in BlockedLists} :
        schedules(members, eligibleDates([selectedMonth |-> startOfMonth(Now)]))
            <= MaxBalancedSchedules}

InitBalance ==
    /\ calendar = WeekCalendar
    /\ \E members \in BalancedRosters :
          state = [InitialState(Now) EXCEPT !.members = members]
    /\ readers = <<>>
    /\ fileChooser = FALSE
    /\ selectValue = formatMonth(state.selectedMonth)
    /\ toast = "Membro atualizado"
    /\ last = [handler |-> "handleSubmit"]
    /\ events = MaxEvents - 1
    /\ pc = "idle"
    /\ NoLocals

NextBalance ==
    \/ GenerateStart
    \/ GenerateDate
    \/ \E index \in 0 .. (Len(availableForDate) - 1) : GenerateDraw(index)
    \/ GenerateStore

SpecBalance == InitBalance /\ [][NextBalance]_vars

(* --------------- generateSchedule on its own, run on ------------------- *)
\* The page in the current month of the short calendar with a roster of
\* MinMembers or more members, each unavailable on at most one of the
\* month's eligible dates, that has at most MaxFairSchedules schedules.
\* forEach and the store go on, and Math.random, drawing again and again,
\* does not for ever leave out the indices of the members not yet scheduled
\* for the date.

MaxFairSchedules == 24

InitGenFair ==
    /\ InitGen
    /\ state.selectedMonth = Now
    /\ Len(state.members) >= MinMembers
    /\ \A m \in 1 .. Len(state.members) :
          \A u \in 1 .. Len(state.members[m].unavailableDates) :
             \E d \in 1 .. Len(eligibleDates(state)) :
                eligibleDates(state)[d] = state.members[m].unavailableDates[u]
    /\ schedules(state.members, eligibleDates(state)) <= MaxFairSchedules

SpecGenFair ==
    /\ InitGenFair
    /\ [][NextBalance]_vars
    /\ WF_vars(GenerateDate)
    /\ WF_vars(\E index \in 0 .. (Len(availableForDate) - 1) : GenerateDraw(index))
    /\ WF_vars(GenerateStore)

(* ------------------ the dates of generateSchedule ---------------------- *)
\* The page on any day of a calendar whose months have MinDays to MaxDays
\* days and begin on any weekday, with a roster of MinMembers members: the
\* user's one event calls generateSchedule, which computes its dates.

MinDays == 28

MaxDays == 31

Calendars == [daysPerMonth : MinDays .. MaxDays, firstWeekday : 0 .. 6]

InitDates ==
    /\ calendar \in Calendars
    /\ \E month \in Ticks :
          state = [InitialState(Now) EXCEPT
                      !.members = [i \in 1 .. MinMembers |->
                                      [name |-> RosterNames[i],
                                       unavailableDates |-> <<>>]],
                      !.selectedMonth = month]
    /\ readers = <<>>
    /\ fileChooser = FALSE
    /\ selectValue = formatMonth(state.selectedMonth)
    /\ toast = "Membro atualizado"
    /\ last = [handler |-> "handleSubmit"]
    /\ events = MaxEvents - 1
    /\ pc = "idle"
    /\ NoLocals

NextDates == GenerateStart

SpecDates == InitDates /\ [][NextDates]_vars

(* ----------------------- updateMembers on its own ---------------------- *)
\* The page with a roster of up to MaxRoster members and a draft in the
\* form: the user's one event submits the form.

MaxRoster == 2

MaxDates == 2

UpsertNames == << <<"A", "b">>, <<"C">>, <<"B">> >>

DraftNames == {<<"A", "b">>, <<"a", "B">>, <<"c">>, <<"D">>}

\* rosters whose members hold up to MaxDates dates, a date twice as well
UpsertRosters ==
    UNION {{[i \in 1 .. n |->
                [name |-> UpsertNames[i], unavailableDates |-> lists[i]]] :
               lists \in [1 .. n ->
                            SeqsUpTo({daysOfMonth(0)[i] :
                                         i \in 1 .. calendar.daysPerMonth},
                                     MaxDates)]} :
           n \in 0 .. MaxRoster}

\* what handleAddDate lets the draft hold: up to MaxDraft days, none twice
Drafts ==
    {list \in SeqsUpTo({daysOfMonth(0)[i] : i \in 1 .. calendar.daysPerMonth},
                       MaxDraft) :
        \A i, j \in 1 .. Len(list) : i # j => list[i] # list[j]}

InitUpsert ==
    /\ calendar = ShortCalendar
    /\ \E members \in UpsertRosters, name \in DraftNames, draft \in Drafts :
          state = [InitialState(Now) EXCEPT
                      !.members = members,
                      !.name = name,
                      !.unavailableDates = draft]
    /\ readers = <<>>
    /\ fileChooser = FALSE
    /\ selectValue = formatMonth(state.selectedMonth)
    /\ toast = "none"
    /\ last = [handler |-> "onChange", value |-> state.name]
    /\ events = MaxEvents - 1
    /\ pc = "idle"
    /\ NoLocals

NextUpsert == Submit

SpecUpsert == InitUpsert /\ [][NextUpsert]_vars

(* ------------------ a member updated around a run ---------------------- *)
\* The page in the current month of the short calendar with a roster as in
\* SpecGenFair and the form filled in: the name of a member of the roster,
\* as registered or in small letters, and a draft of at most one eligible
\* date. Two events are left: "Gerar escala" and "Adicionar membro".

EditDrafts ==
    LET days == eligibleDates([selectedMonth |-> Now])
    IN  {<<>>} \cup {<< days[d] >> : d \in 1 .. Len(days)}

InitEdit ==
    /\ calendar = ShortCalendar
    /\ \E members \in {roster \in Rosters(formatMonth(Now)) :
                          Len(roster) >= MinMembers} :
          \E name \in {members[1].name, toLowerCase(members[1].name)},
             draft \in EditDrafts :
             state = [InitialState(Now) EXCEPT
                         !.members = members,
                         !.name = name,
                         !.unavailableDates = draft]
    /\ \A m \in 1 .. Len(state.members) :
          \A u \in 1 .. Len(state.members[m].unavailableDates) :
             \E d \in 1 .. Len(eligibleDates(state)) :
                eligibleDates(state)[d] = state.members[m].unavailableDates[u]
    /\ schedules(state.members, eligibleDates(state)) <= MaxFairSchedules
    /\ readers = <<>>
    /\ fileChooser = FALSE
    /\ selectValue = formatMonth(state.selectedMonth)
    /\ toast = "none"
    /\ last = [handler |-> "onChange", value |-> state.name]
    /\ events = MaxEvents - 2
    /\ pc = "idle"
    /\ NoLocals

NextEdit ==
    \/ Submit
    \/ GenerateStart
    \/ GenerateDate
    \/ \E index \in 0 .. (Len(availableForDate) - 1) : GenerateDraw(index)
    \/ GenerateStore

SpecEdit == InitEdit /\ [][NextEdit]_vars

(* ============================ properties =============================== *)

(* ------------------------- the roster (Spec) --------------------------- *)

\* C1: in every state reached by form submissions, imports and month
\* switches, no two members of the roster have names that are equal
\* ignoring case.
C1_UniqueNames ==
    \A i, j \in 1 .. Len(state.members) :
        i # j => toLowerCase(state.members[i].name)
                 # toLowerCase(state.members[j].name)

\* "a" was submitted to a roster that held "A": the roster still has one member
C1_SubmittedOtherCase ==
    /\ last.handler = "handleSubmit"
    /\ last.name = <<"a">>
    /\ \E i \in 1 .. Len(last.members) : last.members[i].name = <<"A">>
    /\ Len(state.members) = Len(last.members)

\* C5: after a confirmed selection of a month other than the active one the
\* roster is empty and the active month is the selected one.
C5_MonthSwitchClearsRoster ==
    (/\ last.handler = "confirmAction"
     /\ last.action.kind = "month"
     /\ ~isSameMonth(last.selectedMonth, parseMonth(last.action.value)))
    => (/\ state.members = <<>>
        /\ isSameMonth(state.selectedMonth, parseMonth(last.action.value)))

\* C6: after the import of a file whose dates target a month other than the
\* active one, the active month is the file's month and every member of the
\* roster is a person listed in the file.  The active month is the same when
\* the file is chosen and when it has been read.
C6_ImportReplacesRoster ==
    (/\ last.handler = "onload"
     /\ newMonthOf(last.lines) # Undefined
     /\ ~isSameMonth(last.renderState.selectedMonth, newMonthOf(last.lines))
     /\ ~isSameMonth(last.selectedMonth, newMonthOf(last.lines)))
    => (/\ isSameMonth(state.selectedMonth, newMonthOf(last.lines))
        /\ \A i \in 1 .. Len(state.members) :
              \E k \in 1 .. Len(last.lines) :
                 /\ last.lines[k].name # <<>>
                 /\ toLowerCase(trim(last.lines[k].name))
                    = toLowerCase(state.members[i].name))

(* ---------------------- generateSchedule (SpecGen) --------------------- *)

\* generateSchedule has stored a schedule with the state's last update
ScheduleStored ==
    /\ pc = "idle"
    /\ last.handler = "generateSchedule"
    /\ toast = "Escala gerada"

\* the roster generateSchedule was invoked with
RosterAtCall == last.renderState.members

UnavailableOn(member, date) ==
    \E u \in 1 .. Len(member.unavailableDates) : member.unavailableDates[u] = date

\* the names of the members of the roster available on a date
AvailableNames(date) ==
    {RosterAtCall[m].name :
        m \in {n \in 1 .. Len(RosterAtCall) : ~UnavailableOn(RosterAtCall[n], date)}}

Assignees(entry) == {entry.members[j] : j \in 1 .. Len(entry.members)}

Min(a, b) == IF a < b THEN a ELSE b

\* the assignees of a schedule, entry by entry, each with its entry's date
RECURSIVE PicksOf(_)
PicksOf(entries) ==
    IF entries = <<>> THEN <<>>
    ELSE [j \in 1 .. Len(Head(entries).members) |->
             [date |-> Head(entries).date, name |-> Head(entries).members[j]]]
         \o PicksOf(Tail(entries))

\* C2: no assignee of an entry of a stored schedule has the entry's date
\* among the unavailable dates the roster held for them at the call.
C2_AssigneesAvailable ==
    ScheduleStored =>
        \A i \in 1 .. Len(state.schedule) :
            \A j \in 1 .. Len(state.schedule[i].members) :
                \A m \in 1 .. Len(RosterAtCall) :
                    RosterAtCall[m].name = state.schedule[i].members[j]
                    => ~UnavailableOn(RosterAtCall[m], state.schedule[i].date)

\* a schedule has an entry for a date on which a member was unavailable
C2_SomeoneUnavailable ==
    /\ ScheduleStored
    /\ \E i \in 1 .. Len(state.schedule) :
          \E m \in 1 .. Len(RosterAtCall) :
             UnavailableOn(RosterAtCall[m], state.schedule[i].date)

\* C3: every entry of a stored schedule has at least 1 and at most 4
\* assignees, pairwise distinct; no entry has an empty list of assignees.
C3_OneToFourDistinct ==
    ScheduleStored =>
        \A i \in 1 .. Len(state.schedule) :
            LET members == state.schedule[i].members
            IN  /\ 1 <= Len(members)
                /\ Len(members) <= 4
                /\ \A j, k \in 1 .. Len(members) : j # k => members[j] # members[k]

\* five members were available on the date of an entry, which has four
C3_FourOfFive ==
    /\ ScheduleStored
    /\ \E i \in 1 .. Len(state.schedule) :
          /\ Cardinality(AvailableNames(state.schedule[i].date)) = 5
          /\ Len(state.schedule[i].members) = 4

\* C4: generateSchedule invoked on a roster of fewer than 4 members reports
\* the failure and leaves the stored schedule, the roster and the selected
\* month as they were.
C4_RefusalChangesNothing ==
    [][(/\ Len(state.members) < 4
        /\ last'.handler = "generateSchedule"
        /\ events' # events)
       => (/\ toast' = "Nao foi possivel gerar a escala."
           /\ pc' = "idle"
           /\ state'.schedule = state.schedule
           /\ state'.members = state.members
           /\ state'.selectedMonth = state.selectedMonth)]_vars

\* generateSchedule has refused a roster of three
C4_RefusedThree ==
    /\ last.handler = "generateSchedule"
    /\ Len(last.renderState.members) = 3
    /\ state.members = last.renderState.members
    /\ toast = "Nao foi possivel gerar a escala."

\* C7: for every eligible date with k members available the stored schedule
\* assigns exactly min(4, k) people; with 1 <= k < 4 the assignees are all
\* the available members.
C7_FillsToMinOfFourAndAvailable ==
    ScheduleStored =>
        \A d \in 1 .. Len(eligibleDates(last.renderState)) :
            LET date == eligibleDates(last.renderState)[d]
                k == Cardinality(AvailableNames(date))
            IN  /\ k >= 1 =>
                      \E i \in 1 .. Len(state.schedule) : state.schedule[i].date = date
                /\ \A i \in 1 .. Len(state.schedule) :
                      state.schedule[i].date = date =>
                          /\ Len(state.schedule[i].members) = Min(4, k)
                          /\ Cardinality(Assignees(state.schedule[i])) = Min(4, k)
                          /\ Assignees(state.schedule[i]) \subseteq AvailableNames(date)
                          /\ k < 4 => Assignees(state.schedule[i]) = AvailableNames(date)

\* of a roster of four only the second member is unavailable on a date, whose
\* entry has the other three
C7_ThreeOfFour ==
    /\ ScheduleStored
    /\ Len(RosterAtCall) = 4
    /\ \E i \in 1 .. Len(state.schedule) :
          /\ \A m \in 1 .. 4 :
                UnavailableOn(RosterAtCall[m], state.schedule[i].date) <=> m = 2
          /\ Len(state.schedule[i].members) = 3
          /\ Assignees(state.schedule[i])
             = {RosterAtCall[1].name, RosterAtCall[3].name, RosterAtCall[4].name}

\* C8: a stored schedule has exactly one entry for each eligible date of the
\* month with a member available and none for another date, its entries are
\* in strictly ascending order of date, and the assignees of each are in the
\* order they were picked.
C8_OneEntryPerDateInOrder ==
    ScheduleStored =>
        /\ [i \in 1 .. Len(state.schedule) |-> state.schedule[i].date]
           = SelectSeq(eligibleDates(last.renderState),
                       LAMBDA date : AvailableNames(date) # {})
        /\ \A i, j \in 1 .. Len(state.schedule) :
              i < j => state.schedule[i].date < state.schedule[j].date
        /\ PicksOf(state.schedule) = last.picks

\* a schedule of two entries, the first picked against the order of the roster
C8_TwoEntries ==
    /\ ScheduleStored
    /\ Len(state.schedule) = 2
    /\ Len(state.schedule[1].members) >= 2
    /\ state.schedule[1].members[1] = RosterAtCall[Len(RosterAtCall)].name
    /\ state.schedule[1].members[2] = RosterAtCall[1].name

(* ------------------ the eligible dates (SpecDates) --------------------- *)

\* the days of the month generateSchedule was called for that fall on a weekday
DaysOn(weekday) ==
    {day \in {d * TicksPerDay : d \in Days} :
        /\ isSameMonth(day, last.renderState.selectedMonth)
        /\ getDay(day) = weekday}

\* C9: the dates generateSchedule computes are exactly the Fridays, Saturdays
\* and Sundays of the active month, in ascending order; a 30-day month with
\* 4 Fridays, 4 Saturdays and 5 Sundays has 13 of them.
C9_FridaysSaturdaysSundays ==
    pc # "idle" =>
        /\ {dates[i] : i \in 1 .. Len(dates)} = DaysOn(5) \cup DaysOn(6) \cup DaysOn(0)
        /\ \A i, j \in 1 .. Len(dates) : i < j => dates[i] < dates[j]
        /\ (/\ calendar.daysPerMonth = 30
            /\ Cardinality(DaysOn(5)) = 4
            /\ Cardinality(DaysOn(6)) = 4
            /\ Cardinality(DaysOn(0)) = 5) => Len(dates) = 13

\* the dates of a month of 30 days with 4 Fridays, 4 Saturdays and 5 Sundays
C9_ThirtyDays ==
    /\ pc # "idle"
    /\ calendar.daysPerMonth = 30
    /\ Cardinality(DaysOn(5)) = 4
    /\ Cardinality(DaysOn(6)) = 4
    /\ Cardinality(DaysOn(0)) = 5
    /\ Len(dates) = 13

(* ---------------------- updateMembers (SpecUpsert) --------------------- *)

\* the members of a roster whose name is the given one, ignoring case
Named(members, name) ==
    {m \in 1 .. Len(members) : toLowerCase(members[m].name) = toLowerCase(name)}

\* C10: a submission under a name that equals a member's name ignoring case
\* leaves one member of that name, whose dates are the ones it had, in their
\* order, followed by the submitted dates it did not have, in the order given.
C10_MergesIntoExisting ==
    (/\ last.handler = "handleSubmit"
     /\ last.name # <<>>
     /\ Named(last.members, last.name) # {})
    => LET m == CHOOSE m \in Named(last.members, last.name) : TRUE
           existing == last.members[m].unavailableDates
           added == SelectSeq(last.unavailableDates,
                              LAMBDA date :
                                 \A u \in 1 .. Len(existing) : existing[u] # date)
       IN  /\ Named(state.members, last.name) = {m}
           /\ Len(state.members) = Len(last.members)
           /\ state.members[m].unavailableDates = existing \o added

\* "aB" with a day the member "Ab" has and one it has not was submitted
C10_AnaThenAna ==
    /\ last.handler = "handleSubmit"
    /\ last.name = <<"a", "B">>
    /\ Len(last.members) = 2
    /\ last.members[1].name = <<"A", "b">>
    /\ Len(last.members[1].unavailableDates) = 1
    /\ Len(last.unavailableDates) = 2
    /\ last.unavailableDates[1] = last.members[1].unavailableDates[1]
    /\ state.members[1].unavailableDates
       = << last.unavailableDates[1], last.unavailableDates[2] >>

\* the roster after updateMembers is called on it with one member
Upsert(members, name, unavailableDates) ==
    updateState(updateMembers([members |-> members],
                              << [name |-> name,
                                  unavailableDates |-> unavailableDates] >>),
                state).members

\* the dates the roster holds under a name, as a set
DatesOf(members, name) ==
    UNION {{members[m].unavailableDates[u] :
               u \in 1 .. Len(members[m].unavailableDates)} :
           m \in Named(members, name)}

\* C11: the submission made once more, with the same name and dates, leaves
\* the roster as the first left it: same members, same dates, none added.
C11_SecondUpsertChangesNothing ==
    (/\ last.handler = "handleSubmit"
     /\ last.name # <<>>)
    => Upsert(state.members, last.name, last.unavailableDates) = state.members

\* two dates were submitted under a name the roster did not have; made
\* again, the submission finds the member and adds nothing
C11_NewMemberTwice ==
    /\ last.handler = "handleSubmit"
    /\ Named(last.members, last.name) = {}
    /\ Len(last.unavailableDates) = 2
    /\ Len(state.members) = Len(last.members) + 1
    /\ Upsert(state.members, last.name, last.unavailableDates) = state.members

\* C12: a date d1 submitted under a name and then another date d2, or d2
\* first and then d1, leave the same set of dates under the name: the dates
\* it had, d1 and d2.
C12_OrderOfDatesIrrelevant ==
    (/\ last.handler = "handleSubmit"
     /\ last.name # <<>>
     /\ Len(last.unavailableDates) = 1)
    => \A d2 \in CalendarDays \ {last.unavailableDates[1]} :
          LET d1 == last.unavailableDates[1]
              thisOrder == Upsert(state.members, last.name, << d2 >>)
              otherOrder == Upsert(Upsert(last.members, last.name, << d2 >>),
                                   last.name, << d1 >>)
          IN  /\ DatesOf(thisOrder, last.name) = DatesOf(otherOrder, last.name)
              /\ DatesOf(thisOrder, last.name)
                 = DatesOf(last.members, last.name) \cup {d1, d2}

\* a date was submitted under the name of a member without dates; with a
\* second date the two orders give lists that differ, of the same dates
C12_ListsDiffer ==
    /\ last.handler = "handleSubmit"
    /\ Len(last.unavailableDates) = 1
    /\ Named(last.members, last.name) = {1}
    /\ last.members[1].unavailableDates = <<>>
    /\ \E d2 \in CalendarDays \ {last.unavailableDates[1]} :
          /\ Upsert(state.members, last.name, << d2 >>)[1].unavailableDates
             = << last.unavailableDates[1], d2 >>
          /\ Upsert(Upsert(last.members, last.name, << d2 >>),
                    last.name, last.unavailableDates)[1].unavailableDates
             = << d2, last.unavailableDates[1] >>

\* C14: a submission under a name no member has, ignoring case, adds one
\* member, last; under a name a member has it leaves the count; every
\* other member keeps name, dates and place.  Without dates it adds a
\* member without dates or leaves the dates of the member found.
C14_OnlyTheNamedMemberChanges ==
    (/\ last.handler = "handleSubmit"
     /\ last.name # <<>>)
    => IF Named(last.members, last.name) = {}
       THEN /\ Len(state.members) = Len(last.members) + 1
            /\ state.members[Len(state.members)]
               = [name |-> last.name, unavailableDates |-> last.unavailableDates]
            /\ \A i \in 1 .. Len(last.members) : state.members[i] = last.members[i]
       ELSE /\ Len(state.members) = Len(last.members)
            /\ \A i \in 1 .. Len(last.members) :
                  IF i \in Named(last.members, last.name)
                  THEN /\ state.members[i].name = last.members[i].name
                       /\ last.unavailableDates = <<>> =>
                             state.members[i].unavailableDates
                             = last.members[i].unavailableDates
                  ELSE state.members[i] = last.members[i]

\* a name without dates was submitted to a roster of two that had it
C14_NoDatesForExisting ==
    /\ last.handler = "handleSubmit"
    /\ last.unavailableDates = <<>>
    /\ Len(last.members) = 2
    /\ Named(last.members, last.name) = {2}
    /\ last.members[2].unavailableDates # <<>>
    /\ state.members = last.members

(* ------------------------- the dates (Spec) ---------------------------- *)

\* C13: in every state no member of the roster holds a date twice.
C13_NoDateTwice ==
    \A m \in 1 .. Len(state.members) :
        \A u, v \in 1 .. Len(state.members[m].unavailableDates) :
            u # v => state.members[m].unavailableDates[u]
                     # state.members[m].unavailableDates[v]

\* a member with one date, as the merge and the availability test take it
On(date) == [name |-> <<"A">>, unavailableDates |-> << date >>]

DatesHeld ==
    UNION {{state.members[m].unavailableDates[u] :
               u \in 1 .. Len(state.members[m].unavailableDates)} :
           m \in 1 .. Len(state.members)}
    \cup {state.unavailableDates[u] : u \in 1 .. Len(state.unavailableDates)}
    \cup ({state.selectedDate} \ {Undefined})
    \cup {state.schedule[i].date : i \in 1 .. Len(state.schedule)}
    \cup {dates[i] : i \in 1 .. Len(dates)}

C16_EmptyRosterEmptySchedule ==
    (/\ last.handler = "generateSchedule"
     /\ RosterAtCall = <<>>)
    => (/\ toast # "Nao foi possivel gerar a escala."
        /\ state.schedule = <<>>)

\* C16, amended: generateSchedule called on an empty roster ends at once in
\* the failure of a roster of fewer than 4 members: it computes no date,
\* makes no pick and leaves the stored schedule, which is empty.
C16_EmptyRosterRefused ==
    (/\ last.handler = "generateSchedule"
     /\ RosterAtCall = <<>>)
    => (/\ pc = "idle"
        /\ toast = "Nao foi possivel gerar a escala."
        /\ dates = <<>>
        /\ last.picks = <<>>
        /\ state.members = <<>>
        /\ state.schedule = <<>>)

\* generateSchedule has refused the empty roster
C16_RefusedNone ==
    /\ last.handler = "generateSchedule"
    /\ RosterAtCall = <<>>
    /\ state.members = <<>>
    /\ toast = "Nao foi possivel gerar a escala."

\* nobody of the roster generateSchedule was called with is available on any
\* eligible date of the month
NobodyAvailable ==
    \A d \in 1 .. Len(eligibleDates(last.renderState)) :
        AvailableNames(eligibleDates(last.renderState)[d]) = {}

\* C17: generateSchedule called on a roster of 4 or more members, all of
\* them unavailable on every eligible date of the month, ends without the
\* failure and stores the empty schedule.
C17_NobodyAvailableEmptySchedule ==
    (/\ last.handler = "generateSchedule"
     /\ Len(RosterAtCall) >= 4
     /\ NobodyAvailable)
    => (/\ toast # "Nao foi possivel gerar a escala."
        /\ schedule = <<>>
        /\ last.picks = <<>>
        /\ pc = "idle" => (toast = "Escala gerada" /\ state.schedule = <<>>))

\* the run for a roster of four, none available on the month's eligible date,
\* has ended
C17_FourUnavailable ==
    /\ last.handler = "generateSchedule"
    /\ Len(RosterAtCall) = 4
    /\ eligibleDates(last.renderState) # <<>>
    /\ NobodyAvailable
    /\ pc = "idle"
    /\ toast = "Escala gerada"
    /\ state.schedule = <<>>

\* how often a name was picked before the i-th pick of the run
CountBefore(name, i) ==
    Cardinality({j \in 1 .. (i - 1) : last.picks[j].name = name})

\* the people available on the date of the i-th pick and not yet picked for it
Candidates(i) ==
    AvailableNames(last.picks[i].date)
        \ {last.picks[j].name :
               j \in {k \in 1 .. (i - 1) : last.picks[k].date = last.picks[i].date}}

\* C18: every pick of a run takes a person whose running assignment count
\* is the minimum among the people available on the date and not yet picked
\* for it.
C18_PicksAtMinimum ==
    last.handler = "generateSchedule"
    => \A i \in 1 .. Len(last.picks) :
          \A candidate \in Candidates(i) :
             CountBefore(last.picks[i].name, i) <= CountBefore(candidate, i)

(* ------------- generateSchedule over four dates (SpecBalance) ---------- *)

\* how often a name was picked in the run
CountAtEnd(name) == CountBefore(name, Len(last.picks) + 1)

\* the people the run assigned at least once
Assigned == {last.picks[i].name : i \in 1 .. Len(last.picks)}

\* C19: at the end of a run, the running assignment counts of any two
\* people assigned at least once differ by at most 2.
C19_SpreadAtMostTwo ==
    ScheduleStored
    => \A one \in Assigned : \A other \in Assigned :
          CountAtEnd(one) - CountAtEnd(other) <= 2

(* ----------------------- the stored schedule (Spec) -------------------- *)

\* C20: the schedule stored by a run of generateSchedule is the sequence
\* that run built: its entries hold the run's picks and nothing else, date
\* by date in the order of the eligible dates of the month the run read;
\* no entry of the schedule stored before is carried over.
C20_StoredIsWhatTheRunBuilt ==
    ScheduleStored
    => /\ PicksOf(state.schedule) = last.picks
       /\ \A e \in 1 .. Len(state.schedule) :
             /\ state.schedule[e].members # <<>>
             /\ \E d \in 1 .. Len(eligibleDates(last.renderState)) :
                   eligibleDates(last.renderState)[d] = state.schedule[e].date
       /\ \A e \in 1 .. (Len(state.schedule) - 1) :
             state.schedule[e].date < state.schedule[e + 1].date

\* a run has stored its schedule over another schedule, stored before
C20_Regenerated ==
    /\ ScheduleStored
    /\ last.stored # <<>>
    /\ state.schedule # <<>>
    /\ state.schedule # last.stored

(* ------------------- generateSchedule as a function -------------------- *)

\* the for loop of one date, fed the accepted draws: sort, take the member
\* at the drawn index, count, push, until the date is full or the draws end
RECURSIVE forMemberIndex(_, _, _, _, _)
forMemberIndex(pool, limit, draws, counts, picked) ==
    IF Len(picked) = limit \/ draws = <<>>
    THEN [counts |-> counts, scheduleMembers |-> picked, draws |-> draws]
    ELSE LET sorted == sort(pool, counts)
             selectedMember == sorted[Head(draws) + 1]
         IN  forMemberIndex(sorted, limit, Tail(draws),
                            increment(counts, selectedMember.name),
                            push(picked, selectedMember.name))

\* dates.forEach, fed the accepted draws: the schedule built when they end
RECURSIVE forEachDate(_, _, _, _, _)
forEachDate(renderState, days, draws, counts, built) ==
    IF days = <<>> THEN built
    ELSE LET pool == available(renderState, Head(days))
         IN  IF Len(pool) = 0
             THEN forEachDate(renderState, Tail(days), draws, counts, built)
             ELSE LET filled == forMemberIndex(pool, maxMembersFor(pool),
                                               draws, counts, <<>>)
                  IN  IF Len(filled.scheduleMembers) < maxMembersFor(pool)
                      THEN built
                      ELSE forEachDate(renderState, Tail(days), filled.draws,
                                       filled.counts,
                                       push(built,
                                            [date |-> Head(days),
                                             members |-> filled.scheduleMembers]))

\* the schedule generateSchedule builds from a roster, a month and the
\* results of randomInt that it accepts, starting from no count
generateSchedule(renderState, draws) ==
    forEachDate(renderState, eligibleDates(renderState), draws, <<>>, <<>>)

\* C21: the schedule a run of generateSchedule has built so far, and the one
\* it stores, is a function of the roster and month the run read and of the
\* results of randomInt it accepted: nothing else of the page, and nothing
\* of an earlier run, has a part in it.
C21_ScheduleIsFunctionOfDraws ==
    last.handler = "generateSchedule"
    => /\ pc # "idle" => schedule = generateSchedule(last.renderState, last.draws)
       /\ ScheduleStored
            => state.schedule = generateSchedule(last.renderState, last.draws)

\* a second run has stored, from other draws, another schedule than the one
\* stored before for the same roster and month
C21_SecondRunOtherDraws ==
    /\ ScheduleStored
    /\ last.stored # <<>>
    /\ state.schedule # last.stored
    /\ \E draws \in [1 .. Len(last.draws) -> 0 .. (MaxAssignees - 1)] :
          /\ draws # last.draws
          /\ \A d \in 1 .. Len(draws) :
                draws[d] < Len(available(last.renderState, last.picks[d].date))
          /\ generateSchedule(last.renderState, draws) = last.stored

(* --------------------------- the roster (Spec) ------------------------- *)

\* C22: every date in the unavailableDates of a member of the roster is a
\* day of the selected month.
C22_DatesWithinSelectedMonth ==
    \A m \in 1 .. Len(state.members) :
       \A u \in 1 .. Len(state.members[m].unavailableDates) :
          isSameMonth(state.members[m].unavailableDates[u], state.selectedMonth)

\* C23: no member of the roster has a name that is empty, or empty once
\* its blanks are trimmed.
C23_NoEmptyName ==
    \A m \in 1 .. Len(state.members) : trim(state.members[m].name) # <<>>

(* --------- generateSchedule on its own, run on (SpecGenFair) ----------- *)

\* the members of the pool of the date not yet scheduled for it
Unpicked ==
    {i \in 1 .. Len(availableForDate) :
        \A j \in 1 .. Len(scheduleMembers) :
           scheduleMembers[j] # availableForDate[i].name}

\* C24: whenever generateSchedule is at a draw, a member of the pool is not
\* yet scheduled for the date, and every run that has begun comes to store
\* its schedule.
C24_RunTerminates ==
    /\ [](pc = "while" => Unpicked # {})
    /\ (pc # "idle") ~> ScheduleStored

\* a run has ended that filled a date after draws that could be rejected
C24_FullDateStored ==
    /\ ScheduleStored
    /\ \E e \in 1 .. Len(state.schedule) :
          Len(state.schedule[e].members) = MaxAssignees

(* ------------------ the stored schedule and the roster ----------------- *)

\* C25: no entry of the stored schedule lists a person who is in the roster
\* with the entry's date among their unavailable dates.
C25_ScheduleAgreesWithRoster ==
    \A e \in 1 .. Len(state.schedule) :
       \A a \in 1 .. Len(state.schedule[e].members) :
          \A m \in 1 .. Len(state.members) :
             state.members[m].name = state.schedule[e].members[a]
             => ~UnavailableOn(state.members[m], state.schedule[e].date)

EntriesListing(name) ==
    Cardinality({e \in 1 .. Len(schedule) : name \in Assignees(schedule[e])})
        + (IF \E j \in 1 .. Len(scheduleMembers) : scheduleMembers[j] = name
           THEN 1 ELSE 0)

RECURSIVE SumOf(_, _)
SumOf(counts, names) ==
    IF names = {} THEN 0
    ELSE LET name == CHOOSE n \in names : TRUE
         IN  counts[name] + SumOf(counts, names \ {name})

\* C27: throughout a run of generateSchedule the count of each person is
\* the number of entries built so far in this run that list the person, at
\* most the number of dates taken up so far; the counts add up to the
\* assignee slots filled so far; a run begins with no count.
C27_CountsAreThisRunsEntries ==
    (last.handler = "generateSchedule" /\ pc # "idle")
    => /\ \A name \in DOMAIN memberAssignmentCounts
                        \cup {RosterAtCall[m].name : m \in 1 .. Len(RosterAtCall)} :
             /\ countOf(memberAssignmentCounts, name) = EntriesListing(name)
             /\ countOf(memberAssignmentCounts, name) <= Min(dateIndex, Len(dates))
       /\ SumOf(memberAssignmentCounts, DOMAIN memberAssignmentCounts)
             = Len(PicksOf(schedule)) + Len(scheduleMembers)
       /\ last.picks = <<>> => memberAssignmentCounts = <<>>

\* a run after another run has counted a person twice
C27_SecondRunCountsTwo ==
    /\ last.handler = "generateSchedule"
    /\ pc # "idle"
    /\ last.stored # <<>>
    /\ \E name \in DOMAIN memberAssignmentCounts : memberAssignmentCounts[name] = 2

(* ----------- the schedules of generateSchedule (SpecGen) --------------- *)

\* the lists of length many different names
Picks(names, length) ==
    {list \in [1 .. length -> names] :
        \A i, j \in 1 .. length : i # j => list[i] # list[j]}

\* The reference: for each date in turn that has someone available, any
\* min(4, k) different people of the k available, in any order, whatever
\* their counts.
RECURSIVE ReferenceSchedules(_, _)
ReferenceSchedules(renderState, days) ==
    IF days = <<>> THEN {<<>>}
    ELSE LET pool == available(renderState, Head(days))
             names == {pool[i].name : i \in 1 .. Len(pool)}
             rest == ReferenceSchedules(renderState, Tail(days))
         IN  IF names = {} THEN rest
             ELSE {<< [date |-> Head(days), members |-> list] >> \o entries :
                      list \in Picks(names, Min(MaxAssignees, Cardinality(names))),
                      entries \in rest}

\* entries is a schedule of the reference
RECURSIVE IsReferenceSchedule(_, _, _)
IsReferenceSchedule(renderState, days, entries) ==
    IF days = <<>> THEN entries = <<>>
    ELSE LET pool == available(renderState, Head(days))
             names == {pool[i].name : i \in 1 .. Len(pool)}
         IN  IF names = {} THEN IsReferenceSchedule(renderState, Tail(days), entries)
             ELSE /\ entries # <<>>
                  /\ Head(entries).date = Head(days)
                  /\ Head(entries).members
                        \in Picks(names, Min(MaxAssignees, Cardinality(names)))
                  /\ IsReferenceSchedule(renderState, Tail(days), Tail(entries))

\* the place of a name in an array of members, counted from 0
IndexOf(array, name) ==
    IF \E i \in 1 .. Len(array) : array[i].name = name
    THEN (CHOOSE i \in 1 .. Len(array) : array[i].name = name) - 1
    ELSE 0

\* the results of randomInt that make generateSchedule pick the names of a
\* date in their order, and the counts after them
RECURSIVE DrawsOfDate(_, _, _)
DrawsOfDate(pool, names, counts) ==
    IF names = <<>> THEN [draws |-> <<>>, counts |-> counts]
    ELSE LET sorted == sort(pool, counts)
             rest == DrawsOfDate(sorted, Tail(names), increment(counts, Head(names)))
         IN  [draws |-> << IndexOf(sorted, Head(names)) >> \o rest.draws,
              counts |-> rest.counts]

\* the results of randomInt that make generateSchedule build the entries
RECURSIVE DrawsOf(_, _, _)
DrawsOf(renderState, entries, counts) ==
    IF entries = <<>> THEN <<>>
    ELSE LET ofDate == DrawsOfDate(available(renderState, Head(entries).date),
                                   Head(entries).members, counts)
         IN  ofDate.draws \o DrawsOf(renderState, Tail(entries), ofDate.counts)

\* C28: the schedules generateSchedule can build for a roster and a month
\* are those of the reference. The schedule of a run is the function
\* generateSchedule of its draws; every stored schedule is a reference
\* schedule; and every reference schedule is built for some results of
\* randomInt, each an index of the pool of its date.
C28_SchedulesAreTheReferenceSchedules ==
    (last.handler = "generateSchedule" /\ Len(RosterAtCall) >= MinMembers)
    => /\ pc # "idle" => schedule = generateSchedule(last.renderState, last.draws)
       /\ ScheduleStored
            => IsReferenceSchedule(last.renderState,
                                   eligibleDates(last.renderState), state.schedule)
       /\ (pc = "forEach" /\ dateIndex = 1)
            => \A entries \in ReferenceSchedules(last.renderState,
                                                  eligibleDates(last.renderState)) :
                  LET draws == DrawsOf(last.renderState, entries, <<>>)
                  IN  /\ IsReferenceSchedule(last.renderState,
                                              eligibleDates(last.renderState), entries)
                      /\ generateSchedule(last.renderState, draws) = entries
                      /\ \A d \in 1 .. Len(draws) :
                            draws[d] \in 0 .. (Len(available(last.renderState,
                                                             PicksOf(entries)[d].date)) - 1)

\* a stored schedule whose last pick took a person counted once while a
\* person not yet counted was available and not picked for the date
C28_StoredPickAboveMinimum ==
    /\ ScheduleStored
    /\ Len(last.picks) > 1
    /\ CountBefore(last.picks[Len(last.picks)].name, Len(last.picks)) = 1
    /\ \E candidate \in Candidates(Len(last.picks)) :
          CountAtEnd(candidate) = 0

\* C29: no step of generateSchedule, refused or not, changes anything of
\* the state but the stored schedule: the roster keeps its members, their
\* order and their unavailable dates, and the month stays.
C29_OnlyTheScheduleChanges ==
    [][last'.handler = "generateSchedule"
       => /\ state'.members = state.members
          /\ state'.selectedMonth = state.selectedMonth
          /\ state' = [state EXCEPT !.schedule = state'.schedule]]_vars

\* a run has stored a schedule for a roster with unavailable dates, which
\* is in the state as it was at the call
C29_StoredAndRosterKept ==
    /\ ScheduleStored
    /\ state.schedule # <<>>
    /\ state.members = RosterAtCall
    /\ state.selectedMonth = last.renderState.selectedMonth
    /\ \E m \in 1 .. Len(state.members) : state.members[m].unavailableDates # <<>>
    /\ \E one, other \in 1 .. Len(state.members) :
          /\ one < other
          /\ CountAtEnd(state.members[one].name) > CountAtEnd(state.members[other].name)

(* ---------------------------- the import (Spec) ------------------------ *)

OnloadStep == Len(readers') < Len(readers) /\ last'.handler = "onload"

\* every date of the file's lines is a day of the month of date
DatesWithin(lines, date) ==
    \A k \in 1 .. Len(lines) :
       \A d \in 1 .. Len(parsedDates(lines[k])) :
          isSameMonth(parsedDates(lines[k])[d], date)

\* every member of before is in after, with the dates it had
Kept(before, after) ==
    \A i \in 1 .. Len(before) :
       \E j \in 1 .. Len(after) :
          /\ after[j].name = before[i].name
          /\ \A u \in 1 .. Len(before[i].unavailableDates) :
                \E v \in 1 .. Len(after[j].unavailableDates) :
                   after[j].unavailableDates[v] = before[i].unavailableDates[u]

C32_SubmissionSurvivesImport ==
    [][(/\ OnloadStep
        /\ last.handler = "handleSubmit"
        /\ last'.renderState.selectedMonth = state.selectedMonth
        /\ DatesWithin(last'.lines, state.selectedMonth))
       => \E j \in 1 .. Len(state'.members) :
             /\ toLowerCase(state'.members[j].name) = toLowerCase(last.name)
             /\ \A u \in 1 .. Len(last.unavailableDates) :
                   \E v \in 1 .. Len(state'.members[j].unavailableDates) :
                      state'.members[j].unavailableDates[v]
                      = last.unavailableDates[u]]_vars

(* ------------------------ the draft dates (Spec) ----------------------- *)

\* handleAddDate runs in this step and puts the selected date in the draft
AddDateStep ==
    /\ last'.handler = "handleAddDate"
    /\ state'.unavailableDates = Append(state.unavailableDates, state.selectedDate)

\* the confirmed selection of a month other than the selected one runs in
\* this step
MonthSwitchStep ==
    /\ last'.handler = "confirmAction"
    /\ last'.action.kind = "month"
    /\ ~isSameMonth(state'.selectedMonth, state.selectedMonth)

\* the draft holds no date twice
DraftWithoutRepeat(draft) ==
    \A u, v \in 1 .. Len(draft) : u # v => ~isEqual(draft[u], draft[v])

\* C33: once handleAddDate has put the selected date in the draft, no date
\* is selected; after a confirmed switch of the month no date of the month
\* before is selected; and the draft never holds a date twice.
C33_SelectionClearedAndDraftWithoutRepeat ==
    [][/\ AddDateStep => state'.selectedDate = Undefined
       /\ MonthSwitchStep
            => (\/ state'.selectedDate = Undefined
                \/ ~isSameMonth(state'.selectedDate, state.selectedMonth))
       /\ DraftWithoutRepeat(state'.unavailableDates)]_vars

(* ---------------------- the confirmation (Spec) ------------------------ *)

\* the Confirmation holds no action to run
NothingPending(confirmation) ==
    /\ confirmation._confirmAction = NoAction
    /\ confirmation._cancelAction = NoAction

\* a confirmed action takes effect in this step: the month is switched or
\* the file chooser is opened
Triggered ==
    /\ last'.handler = "confirmAction"
    /\ \/ state'.selectedMonth # state.selectedMonth
       \/ fileChooser' /\ ~fileChooser

\* C34: the action of a Confirmation runs at most once.  Read a second
\* time, confirmAction is a no-op; the Confirmation that onOpenChange builds
\* when the dialog is closed, by "Continuar" or by "Cancelar", holds no
\* action; and a month switch or a file pick takes an action that is held
\* before the step and no longer after it.
C34_ConfirmRunsAtMostOnce ==
    [][/\ confirmAction(confirmAction(state'.confirmation).confirmation).action
          = NoAction
       /\ last'.handler \in {"confirmAction", "cancelAction"}
            => (~state'.confirmation.isOpen /\ NothingPending(state'.confirmation))
       /\ ~state'.confirmation.isOpen => NothingPending(state'.confirmation)
       /\ Triggered
            => (/\ state.confirmation._confirmAction # NoAction
                /\ last'.action = state.confirmation._confirmAction
                /\ NothingPending(state'.confirmation))]_vars

\* a dialog that held the switch to another month has been closed by
\* "Cancelar": the switch it held was not read
C34_CancelledWithSwitchHeld ==
    /\ last.handler = "cancelAction"
    /\ ~state.confirmation.isOpen
    /\ NothingPending(state.confirmation)
    /\ selectValue # formatMonth(state.selectedMonth)

====
